---- MODULE Spec2Model ----
(***************************************************************************)
(* The "amass dns" resolution pipeline of cmd/amass/dns.go:                *)
(*   - performResolutions: the producer goroutine that admits the provided *)
(*     names under the SemMaxDNSQueries semaphore and the timeout timer,   *)
(*   - processDNSRequest: one goroutine per admitted name,                 *)
(*   - processDNSAnswers: the loop that receives the answers and decides   *)
(*     when the run is over,                                               *)
(*   - dnsArgs.OverrideConfig: the normalisation of the record types.      *)
(* The resolver pool, the configuration's blacklist and the semaphore are  *)
(* other packages; they are modelled at their contract.                    *)
(***************************************************************************)
EXTENDS Integers, Sequences, FiniteSets, TLC

\* ------------------------------------------------------------------ bounds
MaxNames == 2      \* at most this many provided names
MaxQueries == 2    \* the admission limit N ranges over 1..MaxQueries
MaxPulses == 1     \* liveness pulses waiting in the active channel
MaxTicks == 3      \* the idle-tick counter saturates here
MaxTypes == 3      \* at most this many record types in cfg.RecordTypes
MaxClock == 21     \* the clock of the WhoisXML source stops here (seconds)
MaxWhois == 2      \* at most this many whois requests are published

\* WhoisXML.RateLimit, in seconds.
RateLimit == 10
\* The start of processRequests falls into a 10 minute interval, in seconds.
TruncateTo == 600

\* ------------------------------------------------------------- the universe
\* A name is the sequence of its labels; <<>> is the empty name "".
EmptyName == <<>>
NameUniverse ==
    { EmptyName,
      <<"host", "other", "org">>,
      <<"bad", "example", "com">>,
      <<"www", "example", "com">> }

\* cfg.Domains(): the root domains under study.
RootDomains == { <<"example", "com">> }

\* cfg.Blacklist
Blacklist == { <<"bad", "example", "com">> }

\* The wildcard answer set recorded for a Static domain.
WildcardSet == { "10.0.0.1", "10.0.0.2" }

NilReq == 0        \* the nil *requests.DNSRequest

IsSuffix(s, t) ==
    /\ Len(s) <= Len(t)
    /\ \A k \in 1..Len(s) : s[k] = t[Len(t) - Len(s) + k]

Range(s) == { s[k] : k \in 1..Len(s) }

Injective(s) == \A a, b \in 1..Len(s) : s[a] = s[b] => a = b

RECURSIVE SeqsUpTo(_, _)
SeqsUpTo(S, n) ==
    IF n = 0 THEN { <<>> }
    ELSE LET shorter == SeqsUpTo(S, n - 1)
         IN  shorter \cup { Append(s, x) : s \in shorter, x \in S }

\* ---------------------------------------------------------- resolver pool
\* sys.Pool().SubdomainToDomain(name): the root domain the name falls under,
\* the empty domain when there is none.
SubdomainToDomain(name) ==
    IF \E d \in RootDomains : IsSuffix(d, name)
    THEN CHOOSE d \in RootDomains : IsSuffix(d, name)
    ELSE <<>>

\* cfg.Blacklisted(name)
Blacklisted(name) == \E b \in Blacklist : IsSuffix(b, name)

\* What one Resolve call may return for record type t: the answers a and the
\* error err (TRUE for a non-nil error). What the answers are next to a
\* non-nil error is not said: the failed call comes with an answer that the
\* caller has to leave alone.
Answer(t, d) == [type |-> t, data |-> d]

Returned(a) == [a |-> a, err |-> FALSE]

ResolveErr(t) == [a |-> << Answer(t, "10.0.0.7") >>, err |-> TRUE]

ResolveOutcomes(t) ==
    IF t = "CNAME"
    THEN { ResolveErr(t),
           Returned(<<>>),
           Returned(<< Answer(t, "cdn.example.com") >>) }
    ELSE { ResolveErr(t),
           Returned(<<>>),
           Returned(<< Answer(t, "10.0.0.1") >>),
           Returned(<< Answer(t, "10.0.0.9") >>),
           Returned(<< Answer(t, "10.0.0.1"), Answer(t, "10.0.0.2") >>) }

WildcardTypes == { "None", "Static", "Dynamic" }

\* sys.Pool().MatchesWildcard(ctx, req), for a domain classified wt.
MatchesWildcard(wt, recs) ==
    CASE wt = "Static"  -> { recs[k].data : k \in 1..Len(recs) } \subseteq WildcardSet
      [] wt = "Dynamic" -> TRUE
      [] OTHER          -> FALSE

\* ------------------------------------------------------- the record types
ToUpper(s) ==
    CASE s = "a"     -> "A"
      [] s = "cname" -> "CNAME"
      [] OTHER       -> s

RECURSIVE OverrideLoop(_, _)
OverrideLoop(rt, k) ==
    IF k > Len(rt) THEN rt
    ELSE LET up == [rt EXCEPT ![k] = ToUpper(rt[k])]
             sw == IF up[k] = "CNAME"
                   THEN [up EXCEPT ![1] = up[k], ![k] = up[1]]
                   ELSE up
         IN  OverrideLoop(sw, k + 1)

\* OverrideConfig without the swap that moves CNAME to the front.
OverrideConfigNoSwap(args) ==
    IF Len(args) > 0 THEN [k \in 1..Len(args) |-> ToUpper(args[k])] ELSE << "A" >>

\* dnsArgs.OverrideConfig, the record types: d.RecordTypes.Slice() is args.
OverrideConfig(args) ==
    IF Len(args) > 0 THEN OverrideLoop(args, 1) ELSE << "A" >>

\* d.RecordTypes.Slice(): a set's elements in any order.
TypeArgs == { s \in SeqsUpTo({"a", "cname"}, 2) : Injective(s) }

\* ------------------------------------------------------------------- state
VARIABLES
    providedNames,   \* cfg.ProvidedNames
    recordTypes,     \* cfg.RecordTypes
    maxDNSQueries,   \* the capacity of cfg.SemMaxDNSQueries
    timeout,         \* cfg.Timeout > 0
    done,            \* the done channel is closed
    cancelled,       \* cancel() of the shared context was called
    held,            \* tickets acquired from SemMaxDNSQueries and not released
    ppc, idx,        \* the producer goroutine: its position, its loop index
    tpc,             \* per name: the position of its processDNSRequest
    tk,              \* per name: the index of the record type being resolved
    tanswers,        \* per name: the local slice answers
    records,         \* per name: req.Records
    wtype,           \* per name: what GetWildcardType returned, "" before
    wildcards,       \* the pool's classification cache, by root domain
    answersChan,     \* the answers channel
    activeChan,      \* the active channel
    first, active, i, dpc,   \* processDNSAnswers
    queried,         \* per name: the record types Resolve was called with
    results,         \* per name: what those calls returned
    pushed,          \* per name: the values the task sent on the channel
    released,        \* per name: how often the task released its ticket
    idle,            \* ticks that applied the idle rule since the last signal
    stuckAt,         \* the name the producer was blocked on in Acquire when
                     \* done was closed, 0 when it was not blocked
                     \* (noted in ObsSpec only)
    ticked,          \* the detector has taken a tick from t.C and no
                     \* terminal signal has been received so far
                     \* (noted in ObsSpec only)
    whois            \* the WhoisXML source, a record:
                     \*   now      time.Now(), seconds since processRequests began
                     \*   last     the local last of processRequests
                     \*   chan     the requests waiting in WhoisRequestChan
                     \*   sent     how many requests were published
                     \*   pc       the position of processRequests
                     \*   dom      the domain of the request being handled
                     \*   wake     the time before which time.Sleep does not return
                     \*   start    when the latest executeWhoisQuery began, -1 for none
                     \*   prev     when the one before that ended, -1 for none
                     \*   ended    when the latest executeWhoisQuery ended, -1 for none
                     \*   executed the domains executeWhoisQuery was called for

cfgVars  == << providedNames, recordTypes, maxDNSQueries, timeout >>
prodVars == << ppc, idx >>
taskVars == << tpc, tk, tanswers, records, wtype, wildcards >>
histVars == << queried, results, pushed, released >>
detVars  == << first, active, i, dpc, idle >>
obsVars  == << stuckAt, ticked >>
dnsVars == << cfgVars, done, cancelled, held, prodVars, taskVars, answersChan,
             activeChan, detVars, histVars, obsVars >>
whoisVars == << whois >>
vars == << dnsVars, whoisVars >>

\* The dns subcommand without the WhoisXML source: its goroutine is not
\* running and nothing is published for it.
WhoisOff ==
    whois = [now |-> 0, last |-> 0, chan |-> <<>>, sent |-> 0, pc |-> "quit",
             dom |-> <<>>, wake |-> 0, start |-> -1, prev |-> -1,
             ended |-> -1, executed |-> {}]

Tasks == 1..Len(providedNames)
Slots == 1..MaxNames

\* The rank of a name that processDNSRequest rejects before it asks the pool
\* anything, 0 for the other names.
RejectRank(name) ==
    CASE name = EmptyName                  -> 1
      [] SubdomainToDomain(name) = <<>>    -> 2
      [] Blacklisted(name)                 -> 3
      [] OTHER                             -> 0

\* d.Names.Slice(): the distinct names of a set, in any order. Two rejected
\* names run the same steps, so of the orders that differ only in which of
\* two rejected names comes first one is kept.
NameLists ==
    { s \in SeqsUpTo(NameUniverse, MaxNames) :
        /\ Injective(s)
        /\ \A a, b \in 1..Len(s) :
              (a < b /\ RejectRank(s[a]) > 0 /\ RejectRank(s[b]) > 0)
              => RejectRank(s[a]) < RejectRank(s[b]) }

\* The state in which performResolutions starts its goroutines, for the
\* configuration it was given.
RunStart ==
    /\ done = FALSE
    /\ cancelled = FALSE
    /\ held = 0
    /\ ppc = IF Len(providedNames) = 0 THEN "returned" ELSE "select"
    /\ idx = 1
    /\ tpc = [n \in Slots |-> "idle"]
    /\ tk = [n \in Slots |-> 0]
    /\ tanswers = [n \in Slots |-> <<>>]
    /\ records = [n \in Slots |-> <<>>]
    /\ wtype = [n \in Slots |-> ""]
    /\ wildcards = [d \in RootDomains |-> ""]
    /\ answersChan = <<>>
    /\ activeChan = 0
    /\ first = TRUE
    /\ active = TRUE
    /\ i = 0
    /\ dpc = "running"
    /\ queried = [n \in Slots |-> <<>>]
    /\ results = [n \in Slots |-> <<>>]
    /\ pushed = [n \in Slots |-> <<>>]
    /\ released = [n \in Slots |-> 0]
    /\ idle = 0
    /\ stuckAt = 0
    /\ ticked = FALSE

\* The admission limits that tell runs of names apart: a limit above the
\* number of names never makes Acquire wait, like one equal to it.
Limits(names) ==
    { q \in 1..MaxQueries : q = 1 \/ q <= Len(names) }

Init ==
    /\ providedNames \in NameLists
    /\ \E args \in TypeArgs : recordTypes = OverrideConfig(args)
    /\ maxDNSQueries \in Limits(providedNames)
    /\ timeout \in BOOLEAN
    /\ RunStart
    /\ WhoisOff

\* The semaphore has a ticket left: Acquire(1) blocks until it has.
TicketFree == held < maxDNSQueries

\* ------------------------------------------------------------- the timer
\* time.AfterFunc(cfg.Timeout minutes, close(done))
TimerCloses ==
    /\ timeout
    /\ ~done
    /\ done' = TRUE
    /\ UNCHANGED << whoisVars, cfgVars, cancelled, held, prodVars, taskVars,
                    answersChan, activeChan, detVars, histVars >>

TimerFires == TimerCloses /\ UNCHANGED obsVars

\* The same step, with a note of the name the producer is blocked on in
\* Acquire at this moment.
TimerFiresSeen ==
    /\ TimerCloses
    /\ stuckAt' = IF ppc = "acquire" /\ ~TicketFree THEN idx ELSE 0
    /\ UNCHANGED ticked

\* ----------------------------------------------------------- the producer
\* ProducerSelect of a loop without the select: every iteration goes on to
\* Acquire.
ProducerSelectBlind ==
    /\ ppc = "select"
    /\ ppc' = "acquire"
    /\ UNCHANGED << whoisVars, cfgVars, obsVars, done, cancelled, held, idx,
                    taskVars, answersChan, activeChan, detVars, histVars >>

\* The select of the producer loop: done is closed -> cancel and return,
\* otherwise the default branch, which goes on to Acquire.
ProducerSelect ==
    /\ ppc = "select"
    /\ IF done
       THEN /\ cancelled' = TRUE
            /\ ppc' = "returned"
       ELSE /\ ppc' = "acquire"
            /\ UNCHANGED cancelled
    /\ UNCHANGED << whoisVars, cfgVars, obsVars, done, held, idx, taskVars, answersChan,
                    activeChan, detVars, histVars >>

\* ProducerAcquire with the Acquire call left out: the task is started without
\* a ticket.
ProducerStartsWithoutTicket ==
    /\ ppc = "acquire"
    /\ tpc' = [tpc EXCEPT ![idx] = "start"]
    /\ idx' = idx + 1
    /\ ppc' = IF idx = Len(providedNames) THEN "returned" ELSE "select"
    /\ UNCHANGED << whoisVars, cfgVars, obsVars, done, cancelled, held, tk, tanswers, records,
                    wtype, wildcards, answersChan, activeChan, detVars,
                    histVars >>

\* cfg.SemMaxDNSQueries.Acquire(1) returns, and the task is started.
ProducerAcquire ==
    /\ ppc = "acquire"
    /\ TicketFree
    /\ held' = held + 1
    /\ tpc' = [tpc EXCEPT ![idx] = "start"]
    /\ idx' = idx + 1
    /\ ppc' = IF idx = Len(providedNames) THEN "returned" ELSE "select"
    /\ UNCHANGED << whoisVars, cfgVars, obsVars, done, cancelled, tk, tanswers, records, wtype,
                    wildcards, answersChan, activeChan, detVars, histVars >>

\* ------------------------------------------------------ processDNSRequest
\* Send with the value sent twice.
SendTwice(n, v) ==
    /\ answersChan' = answersChan \o << v, v >>
    /\ pushed' = [pushed EXCEPT ![n] = @ \o << v, v >>]
    /\ tpc' = [tpc EXCEPT ![n] = "exit"]

\* c <- v, after which only the deferred Release is left to run.
Send(n, v) ==
    /\ answersChan' = Append(answersChan, v)
    /\ pushed' = [pushed EXCEPT ![n] = Append(@, v)]
    /\ tpc' = [tpc EXCEPT ![n] = "exit"]

\* Reject with a bare return: nothing is sent.
RejectSilently(n) ==
    /\ tpc' = [tpc EXCEPT ![n] = "exit"]
    /\ UNCHANGED << answersChan, pushed >>

\* Reject with the Release at the end of the function instead of deferred:
\* the early return leaves without it.
RejectKeepingTicket(n) ==
    /\ answersChan' = Append(answersChan, NilReq)
    /\ pushed' = [pushed EXCEPT ![n] = Append(@, NilReq)]
    /\ tpc' = [tpc EXCEPT ![n] = "finished"]

\* The early rejections: c <- nil; return
Reject(n) == Send(n, NilReq)

\* Rejected without the blacklist test.
RejectedUnlessBlacklisted(name) ==
    \/ name = EmptyName
    \/ SubdomainToDomain(name) = <<>>

\* The tests that reject a name before the pool is asked anything: the empty
\* name, the empty domain, the blacklist.
Rejected(name) ==
    \/ name = EmptyName
    \/ SubdomainToDomain(name) = <<>>
    \/ Blacklisted(name)

\* Untrusted comparing with the wrong classification.
UntrustedWhenStatic(wt) == wt = "Static"

\* GetWildcardType(ctx, req) == resolvers.WildcardTypeDynamic
Untrusted(wt) == wt = "Dynamic"

\* NoRecords with the test left out.
NoRecordsNever(recs) == FALSE

\* len(req.Records) == 0
NoRecords(recs) == Len(recs) = 0

\* From the start of processDNSRequest to the call of GetWildcardType.
TaskStart(n) ==
    /\ n \in Tasks
    /\ tpc[n] = "start"
    /\ IF Rejected(providedNames[n])
       THEN Reject(n)
       ELSE /\ tpc' = [tpc EXCEPT ![n] = "wildcard"]
            /\ UNCHANGED << answersChan, pushed >>
    /\ UNCHANGED << whoisVars, cfgVars, obsVars, done, cancelled, held, prodVars, tk, tanswers,
                    records, wtype, wildcards, activeChan, detVars, queried,
                    results, released >>

\* GetWildcardType returns: the cached classification of the domain, or a
\* first classification, which is cached. Dynamic ends the task; otherwise the
\* first Resolve is called.
TaskWildcard(n) ==
    /\ n \in Tasks
    /\ tpc[n] = "wildcard"
    /\ LET d == SubdomainToDomain(providedNames[n])
       IN  \E wt \in WildcardTypes :
             /\ wildcards[d] \in { "", wt }
             /\ wildcards' = [wildcards EXCEPT ![d] = wt]
             /\ wtype' = [wtype EXCEPT ![n] = wt]
             /\ IF Untrusted(wt)
                THEN /\ Reject(n)
                     /\ UNCHANGED << tk, queried >>
                ELSE /\ tpc' = [tpc EXCEPT ![n] = "resolve"]
                     /\ tk' = [tk EXCEPT ![n] = 1]
                     /\ queried' = [queried EXCEPT ![n] = << recordTypes[1] >>]
                     /\ UNCHANGED << answersChan, pushed >>
    /\ UNCHANGED << whoisVars, cfgVars, obsVars, done, cancelled, held, prodVars, tanswers,
                    records, activeChan, detVars, results, released >>

\* BreakAfter without the test of the record type.
BreakAfterAnyType(t, answers) == Len(answers) > 0

\* BreakAfter of a loop without the break.
BreakNever(t, answers) == FALSE

\* The loop's break condition after the query of type t.
BreakAfter(t, answers) == t = "CNAME" /\ Len(answers) > 0

\* Accumulate without the test of err: whatever came back is appended.
AccumulateAll(answers, out) == answers \o out.a

\* The slice answers after a Resolve call returned out.
Accumulate(answers, out) ==
    IF ~out.err THEN answers \o out.a ELSE answers

\* Resolve returns for the record type at tk[n]: the answers are appended,
\* then either the next Resolve is called or the loop is left; after the loop
\* req.Records is set and, when it is empty, nil is sent.
TaskResolve(n) ==
    /\ n \in Tasks
    /\ tpc[n] = "resolve"
    /\ \E out \in ResolveOutcomes(recordTypes[tk[n]]) :
         LET t == recordTypes[tk[n]]
             answers == Accumulate(tanswers[n], out)
             more == ~BreakAfter(t, answers) /\ tk[n] < Len(recordTypes)
         IN  /\ results' = [results EXCEPT ![n] = Append(@, out)]
             /\ tanswers' = [tanswers EXCEPT ![n] = answers]
             /\ IF more
                THEN /\ tk' = [tk EXCEPT ![n] = @ + 1]
                     /\ queried' = [queried EXCEPT
                                      ![n] = Append(@, recordTypes[tk[n] + 1])]
                     /\ UNCHANGED << tpc, records, answersChan, pushed >>
                ELSE /\ records' = [records EXCEPT ![n] = answers]
                     /\ UNCHANGED << tk, queried >>
                     /\ IF NoRecords(answers)
                        THEN Send(n, NilReq)
                        ELSE /\ tpc' = [tpc EXCEPT ![n] = "match"]
                             /\ UNCHANGED << answersChan, pushed >>
    /\ UNCHANGED << whoisVars, cfgVars, obsVars, done, cancelled, held, prodVars, wtype,
                    wildcards, activeChan, detVars, released >>

\* MatchesWildcard returns: nil is sent on a match, req otherwise.
TaskMatch(n) ==
    /\ n \in Tasks
    /\ tpc[n] = "match"
    /\ IF MatchesWildcard(wildcards[SubdomainToDomain(providedNames[n])], records[n])
       THEN Send(n, NilReq)
       ELSE Send(n, n)
    /\ UNCHANGED << whoisVars, cfgVars, obsVars, done, cancelled, held, prodVars, tk, tanswers,
                    records, wtype, wildcards, activeChan, detVars, queried,
                    results, released >>

\* defer cfg.SemMaxDNSQueries.Release(1)
TaskRelease(n) ==
    /\ n \in Tasks
    /\ tpc[n] = "exit"
    /\ held' = held - 1
    /\ released' = [released EXCEPT ![n] = @ + 1]
    /\ tpc' = [tpc EXCEPT ![n] = "finished"]
    /\ UNCHANGED << whoisVars, cfgVars, obsVars, done, cancelled, prodVars, tk, tanswers, records,
                    wtype, wildcards, answersChan, activeChan, detVars,
                    queried, results, pushed >>

\* ------------------------------------------------------ the liveness pulses
\* activeFunc / resolvFunc: the pool publishes SetActive and ResolveCompleted
\* while it works on a call; the subscriptions end when performResolutions
\* returns.
InPool(n) == tpc[n] \in { "wildcard", "resolve", "match" }

ResolverPulse ==
    /\ dpc = "running"
    /\ \E n \in Tasks : InPool(n)
    /\ activeChan < MaxPulses
    /\ activeChan' = activeChan + 1
    /\ UNCHANGED << whoisVars, cfgVars, obsVars, done, cancelled, held, prodVars, taskVars,
                    answersChan, detVars, histVars >>

\* ------------------------------------------------------ processDNSAnswers
Bump(k) == IF k < MaxTicks THEN k + 1 ELSE k

\* When processDNSAnswers returns, performResolutions returns with it: the
\* callbacks are unsubscribed and the active channel, a local of that frame,
\* is gone, which is modelled as the channel being empty.

\* The loop condition i < l fails.
DetectorComplete ==
    /\ dpc = "running"
    /\ i >= Len(providedNames)
    /\ dpc' = "complete"
    /\ activeChan' = 0
    /\ UNCHANGED << whoisVars, cfgVars, obsVars, done, cancelled, held, prodVars, taskVars,
                    answersChan, first, active, i, idle, histVars >>

\* DetectorDone taken only from an idle loop: done is looked at when active
\* is false.
DetectorDoneWhenIdle ==
    /\ dpc = "running"
    /\ i < Len(providedNames)
    /\ done
    /\ ~active
    /\ dpc' = "timeout"
    /\ activeChan' = 0
    /\ UNCHANGED << whoisVars, cfgVars, obsVars, done, cancelled, held, prodVars, taskVars,
                    answersChan, first, active, i, idle, histVars >>

\* case <-done
DetectorDone ==
    /\ dpc = "running"
    /\ i < Len(providedNames)
    /\ done
    /\ dpc' = "timeout"
    /\ activeChan' = 0
    /\ UNCHANGED << whoisVars, cfgVars, obsVars, done, cancelled, held, prodVars, taskVars,
                    answersChan, first, active, i, idle, histVars >>

\* TickVerdict without the debounce: the first idle tick stops.
TickVerdictHasty(f, a) == IF f THEN "ignore" ELSE "stop"

\* TickVerdict without the test of first: the idle rule on every tick.
TickVerdictNoGrace(f, a) == IF a THEN "clear" ELSE "stop"

\* What a tick does, given first and active: continue untouched, clear
\* active and continue, or return.
TickVerdict(f, a) ==
    IF f THEN "ignore" ELSE IF a THEN "clear" ELSE "stop"

\* case <-t.C
TickTaken ==
    /\ dpc = "running"
    /\ i < Len(providedNames)
    /\ LET v == TickVerdict(first, active)
       IN  /\ idle' = IF v = "ignore" THEN idle ELSE Bump(idle)
           /\ active' = IF v = "clear" THEN FALSE ELSE active
           /\ dpc' = IF v = "stop" THEN "drain" ELSE dpc
           /\ activeChan' = IF v = "stop" THEN 0 ELSE activeChan
    /\ UNCHANGED << whoisVars, cfgVars, done, cancelled, held, prodVars,
                    taskVars, answersChan, first, i, histVars >>

DetectorTick == TickTaken /\ UNCHANGED obsVars

\* The same step, with a note that a tick was taken before any signal.
DetectorTickSeen ==
    /\ TickTaken
    /\ ticked' = first
    /\ UNCHANGED stuckAt

\* case <-activeChan
DetectorActive ==
    /\ dpc = "running"
    /\ i < Len(providedNames)
    /\ activeChan > 0
    /\ activeChan' = activeChan - 1
    /\ active' = TRUE
    /\ idle' = 0
    /\ UNCHANGED << whoisVars, cfgVars, obsVars, done, cancelled, held, prodVars, taskVars,
                    answersChan, first, i, dpc, histVars >>

\* case req := <-answers
DetectorAnswer ==
    /\ dpc = "running"
    /\ i < Len(providedNames)
    /\ Len(answersChan) > 0
    /\ answersChan' = Tail(answersChan)
    /\ i' = i + 1
    /\ active' = TRUE
    /\ first' = FALSE
    /\ idle' = 0
    /\ ticked' = FALSE
    /\ UNCHANGED << whoisVars, cfgVars, stuckAt, done, cancelled, held, prodVars,
                    taskVars, activeChan, dpc, histVars >>

\* ------------------------------------------------------- the specification
Next ==
    \/ TimerFires
    \/ ProducerSelect
    \/ ProducerAcquire
    \/ \E n \in Slots : TaskStart(n)
    \/ \E n \in Slots : TaskWildcard(n)
    \/ \E n \in Slots : TaskResolve(n)
    \/ \E n \in Slots : TaskMatch(n)
    \/ \E n \in Slots : TaskRelease(n)
    \/ ResolverPulse
    \/ DetectorComplete
    \/ DetectorDone
    \/ DetectorTick
    \/ DetectorAnswer
    \/ DetectorActive

Spec == Init /\ [][Next]_vars

\* A task at the end of processDNSRequest runs its deferred Release:
\* goroutines are scheduled fairly. A select picks among its ready cases at
\* random, so a case that stays ready is taken in the end: the closed done
\* channel in processDNSAnswers, and a loop whose condition fails is left. The runs are those in which the ticket is
\* the bottleneck: one ticket, and the timer armed, which may or may not fire.
FairInit == Init /\ timeout /\ maxDNSQueries = 1

FairSpec ==
    /\ FairInit
    /\ [][Next]_vars
    /\ \A n \in Slots : WF_vars(TaskRelease(n))
    /\ WF_vars(DetectorDone)
    /\ WF_vars(DetectorComplete)

\* The runs with one ticket, observed: the timer and the tick note in stuckAt
\* and ticked what the claims about them need and Spec does not keep.
ObsInit == Init /\ maxDNSQueries = 1

ObsNext ==
    \/ TimerFiresSeen
    \/ ProducerSelect
    \/ ProducerAcquire
    \/ \E n \in Slots : TaskStart(n)
    \/ \E n \in Slots : TaskWildcard(n)
    \/ \E n \in Slots : TaskResolve(n)
    \/ \E n \in Slots : TaskMatch(n)
    \/ \E n \in Slots : TaskRelease(n)
    \/ ResolverPulse
    \/ DetectorComplete
    \/ DetectorDone
    \/ DetectorTickSeen
    \/ DetectorAnswer
    \/ DetectorActive

ObsSpec == ObsInit /\ [][ObsNext]_vars

\* The runs without a timeout and with one or two tickets: no timer is armed and done is never closed, so
\* the steps are those of Next but for the timer and the done case. Every
\* goroutine that can take a step takes one in the end: the producer, each
\* task (every pool call returns), and processDNSAnswers, which leaves its
\* loop, or takes a tick or an answer. Pulses need not come.
NoTimeoutInit == Init /\ ~timeout /\ maxDNSQueries <= 2

ProducerStep == ProducerSelect \/ ProducerAcquire

TaskStep(n) ==
    \/ TaskStart(n)
    \/ TaskWildcard(n)
    \/ TaskResolve(n)
    \/ TaskMatch(n)
    \/ TaskRelease(n)

DetectorStep == DetectorComplete \/ DetectorTick \/ DetectorAnswer

NoTimeoutNext ==
    \/ ProducerSelect
    \/ ProducerAcquire
    \/ \E n \in Slots : TaskStart(n)
    \/ \E n \in Slots : TaskWildcard(n)
    \/ \E n \in Slots : TaskResolve(n)
    \/ \E n \in Slots : TaskMatch(n)
    \/ \E n \in Slots : TaskRelease(n)
    \/ ResolverPulse
    \/ DetectorComplete
    \/ DetectorTick
    \/ DetectorAnswer
    \/ DetectorActive

NoTimeoutSpec ==
    /\ NoTimeoutInit
    /\ [][NoTimeoutNext]_vars
    /\ WF_vars(ProducerStep)
    /\ \A n \in Slots : WF_vars(TaskStep(n))
    /\ WF_vars(DetectorStep)

\* processDNSRequest loops over whatever list cfg.RecordTypes holds: the runs
\* of one name under every ordered list of distinct record types.
RecordTypeLists ==
    { s \in SeqsUpTo({ "A", "AAAA", "CNAME" }, MaxTypes) :
        Injective(s) /\ Len(s) > 0 }

ListInit ==
    /\ providedNames \in { s \in NameLists : Len(s) <= 1 }
    /\ recordTypes \in RecordTypeLists
    /\ maxDNSQueries = 1
    /\ timeout \in BOOLEAN
    /\ RunStart
    /\ WhoisOff

ListSpec == ListInit /\ [][Next]_vars

\* ------------------------------------------------- the WhoisXML source
\* The domains a whois request may name, and w.Config().IsDomainInScope.
WhoisDomains == { <<"example", "com">>, <<"other", "org">> }

IsDomainInScope(d) == d \in RootDomains

\* time.Now().Truncate(10 * time.Minute) lies this many seconds before
\* time.Now(): any number below ten minutes, of which these are taken.
StartOffsets == { 0, RateLimit - 1, RateLimit, TruncateTo - 1 }

\* NeedsSleep of a loop that never sleeps.
NeedsSleepNever(now, last) == FALSE

\* time.Now().Sub(last) < w.RateLimit
NeedsSleep(now, last) == now - last < RateLimit

\* processRequests starts; the dns run is not part of this specification.
WhoisInit ==
    /\ providedNames = <<>>
    /\ recordTypes = << "A" >>
    /\ maxDNSQueries = 1
    /\ timeout = FALSE
    /\ RunStart
    /\ \E e \in StartOffsets :
          whois = [now |-> 0, last |-> 0 - e, chan |-> <<>>, sent |-> 0,
                   pc |-> "select", dom |-> <<>>, wake |-> 0, start |-> -1,
                   prev |-> -1, ended |-> -1, executed |-> {}]

\* A second passes.
WhoisClock ==
    /\ whois.now < MaxClock
    /\ whois' = [whois EXCEPT !.now = @ + 1]
    /\ UNCHANGED dnsVars

\* A whois request for domain d is published and waits in WhoisRequestChan.
WhoisArrives(d) ==
    /\ whois.sent < MaxWhois
    /\ whois' = [whois EXCEPT !.sent = @ + 1, !.chan = Append(@, d)]
    /\ UNCHANGED dnsVars

\* last = time.Now(); w.executeWhoisQuery(d) is entered, in state w.
WhoisBegin(w, d) ==
    [w EXCEPT !.last = w.now, !.pc = "exec", !.dom = d, !.start = w.now,
              !.prev = w.ended]

\* case whois := <-w.WhoisRequestChan(): out of scope -> next iteration;
\* in scope -> sleep when the last query is too recent, else the query.
WhoisTake ==
    /\ whois.pc = "select"
    /\ whois.chan # <<>>
    /\ LET d == Head(whois.chan)
           w == [whois EXCEPT !.chan = Tail(@)]
       IN  whois' =
             IF ~IsDomainInScope(d) THEN w
             ELSE IF NeedsSleep(w.now, w.last)
                  THEN [w EXCEPT !.pc = "sleep", !.dom = d,
                                 !.wake = w.now + RateLimit]
                  ELSE WhoisBegin(w, d)
    /\ UNCHANGED dnsVars

\* time.Sleep(w.RateLimit) returns, not before the duration has passed.
WhoisWake ==
    /\ whois.pc = "sleep"
    /\ whois.now >= whois.wake
    /\ whois' = WhoisBegin(whois, whois.dom)
    /\ UNCHANGED dnsVars

\* executeWhoisQuery returns; last = time.Now().
WhoisDone ==
    /\ whois.pc = "exec"
    /\ whois' = [whois EXCEPT !.last = whois.now, !.ended = whois.now,
                              !.executed = @ \cup { whois.dom },
                              !.pc = "select", !.dom = <<>>]
    /\ UNCHANGED dnsVars

\* case <-w.AddrRequestChan(), case <-w.ASNRequestChan(): nothing is done.
WhoisOther ==
    /\ whois.pc = "select"
    /\ UNCHANGED vars

\* case <-w.Quit()
WhoisQuit ==
    /\ whois.pc = "select"
    /\ whois' = [whois EXCEPT !.pc = "quit"]
    /\ UNCHANGED dnsVars

WhoisNext ==
    \/ WhoisClock
    \/ \E d \in WhoisDomains : WhoisArrives(d)
    \/ WhoisTake
    \/ WhoisWake
    \/ WhoisDone
    \/ WhoisOther
    \/ WhoisQuit

WhoisSpec == WhoisInit /\ [][WhoisNext]_vars

\* ------------------------------------------------------------ the claims
Started(n) == tpc[n] # "idle"
Signalled(n) == tpc[n] \in { "exit", "finished" }
InFlight == { n \in Tasks : tpc[n] \notin { "idle", "finished" } }
Admitted == Cardinality({ n \in Tasks : Started(n) })

RECURSIVE Accumulated(_)
\* The answers of the calls that returned without an error, in call order.
Accumulated(outs) ==
    IF outs = <<>> THEN <<>>
    ELSE Accumulate(Accumulated(SubSeq(outs, 1, Len(outs) - 1)), outs[Len(outs)])

DataOf(recs) == { recs[k].data : k \in 1..Len(recs) }

\* C1: the tickets acquired and not yet released are as many as the
\* processDNSRequest tasks in flight, and never more than the admission limit.
C1_AdmissionBound ==
    /\ held <= maxDNSQueries
    /\ Cardinality(InFlight) = held

\* The producer waits for a ticket with the limit reached.
C1_Witness ==
    /\ ppc = "acquire"
    /\ held = maxDNSQueries
    /\ Cardinality(InFlight) = maxDNSQueries

\* C2: a started processDNSRequest has sent exactly one value on the answer
\* channel once it is past its send, none before, and never two.
C2_ExactlyOneSignal ==
    \A n \in Tasks :
        /\ Len(pushed[n]) <= 1
        /\ Signalled(n) <=> Len(pushed[n]) = 1
        /\ pushed[n] \in { <<>>, << NilReq >>, << n >> }

\* Two tasks are over, one with a result and one with the nil marker.
C2_Witness ==
    \E n, m \in Tasks :
        /\ tpc[n] = "finished" /\ pushed[n] = << n >>
        /\ tpc[m] = "finished" /\ pushed[m] = << NilReq >>

\* C3: a task releases its ticket exactly once, at its end and not before, and
\* a task that has sent its terminal signal goes on to release: no ticket stays
\* held after its resolution is over.
C3_TicketReleased ==
    /\ [](\A n \in Slots :
            /\ released[n] <= 1
            /\ released[n] = 1 <=> tpc[n] = "finished")
    /\ \A n \in Slots : (tpc[n] = "exit") ~> (released[n] = 1 /\ tpc[n] = "finished")

\* A name rejected early, here the blacklisted one, has released its ticket.
C3_Witness ==
    \E n \in Tasks :
        /\ Blacklisted(providedNames[n])
        /\ released[n] = 1
        /\ held = 0

\* C4: for a name out of scope or on the blacklist the nil marker is sent and
\* the pool is never asked: no Resolve call, no GetWildcardType call.
C4_NoQueryWhenRejected ==
    \A n \in Tasks :
        (\/ SubdomainToDomain(providedNames[n]) = <<>>
         \/ Blacklisted(providedNames[n]))
        => /\ queried[n] = <<>>
           /\ results[n] = <<>>
           /\ wtype[n] = ""
           /\ ~InPool(n)
           /\ Started(n) /\ tpc[n] # "start" => pushed[n] = << NilReq >>

\* A blacklisted name and an out-of-scope name are both over.
C4_Witness ==
    \E n, m \in Tasks :
        /\ Blacklisted(providedNames[n]) /\ tpc[n] = "finished"
        /\ providedNames[m] # EmptyName
        /\ SubdomainToDomain(providedNames[m]) = <<>> /\ tpc[m] = "finished"

\* C5: a name whose domain GetWildcardType classified Dynamic gets the nil
\* marker and no Resolve call.
C5_DynamicSuppressed ==
    \A n \in Tasks :
        wtype[n] = "Dynamic"
        => /\ queried[n] = <<>>
           /\ results[n] = <<>>
           /\ ~InPool(n)
           /\ pushed[n] = << NilReq >>

\* A name under a Dynamic domain is over.
C5_Witness ==
    \E n \in Tasks : wtype[n] = "Dynamic" /\ tpc[n] = "finished"

\* C6: for a name past the Scoped stage the signal is the result iff the
\* accumulated answers are non-empty and do not match the wildcard; the result
\* carries all accumulated answers; under a Static domain answers within the
\* wildcard set are suppressed and an answer outside it is emitted.
C6_ResultIffGenuine ==
    \A n \in Tasks :
        (wtype[n] \in { "None", "Static" } /\ Signalled(n))
        => LET acc == Accumulated(results[n])
           IN  /\ pushed[n] = << n >>
                    <=> (Len(acc) > 0 /\ ~MatchesWildcard(wtype[n], acc))
               /\ pushed[n] = << n >> => records[n] = acc
               /\ wtype[n] = "Static" /\ DataOf(acc) \subseteq WildcardSet
                    => pushed[n] = << NilReq >>
               /\ wtype[n] = "Static" /\ DataOf(acc) \ WildcardSet # {}
                    => pushed[n] = << n >> /\ records[n] = acc

\* Under the Static domain a name was emitted whose second query returned an
\* answer outside the wildcard set.
C6_Witness ==
    \E n \in Tasks :
        /\ wtype[n] = "Static"
        /\ Len(results[n]) = 2
        /\ Len(records[n]) > 0
        /\ DataOf(records[n]) \ WildcardSet # {}
        /\ pushed[n] = << n >>

CnameAnswered(n) ==
    \E k \in 1..Len(results[n]) :
        /\ queried[n][k] = "CNAME"
        /\ ~results[n][k].err
        /\ Len(results[n][k].a) > 0

\* C7: with the record types A and CNAME configured, a name whose CNAME query
\* returned answers gets no A query, and its records are the CNAME answers alone.
C7_CnameShortCircuit ==
    \A n \in Tasks :
        (Range(recordTypes) = { "A", "CNAME" } /\ CnameAnswered(n))
        => /\ queried[n] = << "CNAME" >>
           /\ tpc[n] # "resolve"
           /\ records[n] = results[n][1].a
           /\ \A k \in 1..Len(records[n]) : records[n][k].type = "CNAME"

\* With A and CNAME configured a name was emitted on its CNAME answer.
C7_Witness ==
    \E n \in Tasks :
        /\ Range(recordTypes) = { "A", "CNAME" }
        /\ CnameAnswered(n)
        /\ pushed[n] = << n >>

\* C8: after the last signal processDNSAnswers concludes drained on exactly
\* the second tick: the first tick leaves it running, the second stops it.
C8_DrainOnSecondIdleTick ==
    /\ dpc = "drain" => idle = 2
    /\ (dpc = "running" /\ ~first) => idle <= 1
    /\ (dpc = "running" /\ ~first /\ idle = 1) => ~active

\* Drained after a terminal signal, with fewer signals than names and no
\* timeout.
C8_Witness ==
    /\ dpc = "drain"
    /\ i >= 1
    /\ i < Len(providedNames)
    /\ ~timeout

\* C9: when the run has stopped by the timeout or by drain, and the producer
\* is over too, the shared context is cancelled.
C9_StopCancels ==
    (dpc \in { "timeout", "drain" } /\ ppc = "returned") => cancelled

\* C10 as stated: at run end the signals received equal the names admitted.
C10_ReceivedEqualsAdmitted ==
    dpc # "running" => i = Admitted

\* C10 amended: the signals received never exceed the names admitted, and at
\* the exit taken when the loop has counted all provided names they equal
\* them.
C10_ReceivedAtMostAdmitted ==
    /\ i <= Admitted
    /\ dpc = "complete" => (i = Admitted /\ i = Len(providedNames))

\* The run ended with every provided name counted.
C10_Witness ==
    /\ dpc = "complete"
    /\ i = MaxNames
    /\ Admitted = MaxNames

\* C11: once the timer has closed done, processDNSAnswers returns, whatever
\* signals and pulses keep arriving.
C11_TimeoutEndsRun ==
    (done /\ dpc = "running") ~> (dpc # "running")

\* The run ended on the closed done channel with the active flag set and a
\* task still inside the pool.
C11_Witness ==
    /\ dpc = "timeout"
    /\ active
    /\ \E n \in Tasks : InPool(n)

\* C12: a producer that was blocked in Acquire when the timer closed done
\* gives up the wait: the name it was waiting for is never started.
C12_BlockedProducerStops ==
    stuckAt # 0 => tpc[stuckAt] = "idle"

\* C13 as stated: no ticket is ever held for an empty name, which is sent as
\* one nil all the same.
C13_DroppedBeforeTicket ==
    \A n \in Tasks :
        providedNames[n] = EmptyName
        => /\ n \notin InFlight
           /\ Signalled(n) => pushed[n] = << NilReq >>

\* C13: an empty name is admitted with a ticket like every other name, is
\* rejected by processDNSRequest before any pool call, is sent as one nil,
\* and its ticket is released.
C13_EmptyNameRejectedInTask ==
    \A n \in Tasks :
        providedNames[n] = EmptyName
        => /\ n \in InFlight => held >= 1
           /\ queried[n] = <<>> /\ wtype[n] = "" /\ ~InPool(n)
           /\ Signalled(n) => pushed[n] = << NilReq >>
           /\ tpc[n] = "finished" => released[n] = 1

\* The task of an empty name has sent its nil and still holds its ticket.
C13_Witness ==
    \E n \in Tasks :
        /\ providedNames[n] = EmptyName
        /\ tpc[n] = "exit"
        /\ pushed[n] = << NilReq >>
        /\ held >= 1

RECURSIVE Genuine(_)
\* The answers of the outcomes that carry no error, in order.
Genuine(outs) ==
    IF outs = <<>> THEN <<>>
    ELSE (IF Head(outs).err THEN <<>> ELSE Head(outs).a) \o Genuine(Tail(outs))

Errored(n) == \E k \in 1..Len(results[n]) : results[n][k].err

\* The step in which a Resolve call of name n returns with an error.
ErrorReturns(n) ==
    /\ Len(results'[n]) = Len(results[n]) + 1
    /\ results'[n][Len(results'[n])].err

\* C14: a Resolve error adds nothing to the answers of its name, the record
\* types after it are still queried, the name ends in one signal, nil when
\* nothing was accumulated, and the step of the error touches neither another
\* name's task nor the run.
C14_ResolveErrorAbsorbed ==
    /\ [](\A n \in Tasks :
            Errored(n)
            => /\ tanswers[n] = Genuine(results[n])
               /\ Signalled(n)
                  => /\ queried[n] = recordTypes
                     /\ records[n] = Genuine(results[n])
                     /\ Len(pushed[n]) = 1
                     /\ Genuine(results[n]) = <<>> => pushed[n] = << NilReq >>)
    /\ [][\A n \in Tasks :
            ErrorReturns(n)
            => /\ Len(queried[n]) < Len(recordTypes)
                  => /\ tpc'[n] = "resolve"
                     /\ queried'[n] =
                          Append(queried[n], recordTypes[Len(queried[n]) + 1])
               /\ \A m \in Tasks \ { n } :
                     /\ tpc'[m] = tpc[m]
                     /\ tanswers'[m] = tanswers[m]
                     /\ pushed'[m] = pushed[m]
               /\ dpc' = dpc /\ done' = done /\ cancelled' = cancelled
               /\ ppc' = ppc]_vars

\* The CNAME query of a name failed, its A query returned an answer, and the
\* name was sent as a result.
C14_Witness ==
    \E n \in Tasks :
        /\ tpc[n] = "finished"
        /\ Len(results[n]) = 2
        /\ results[n][1].err
        /\ ~results[n][2].err
        /\ pushed[n] = << n >>

\* C15 as stated: once the detector has taken a tick, the next tick applies
\* the idle rule, whether or not a terminal signal has been received.
C15_OnlyFirstTickIgnored ==
    (dpc = "running" /\ i < Len(providedNames) /\ ticked)
    => TickVerdict(first, active) # "ignore"

\* C15: as long as no terminal signal has been received every tick is
\* ignored, so active stays set and the run does not end by drain; after the
\* first signal every tick applies the idle rule.
C15_TicksIgnoredUntilFirstSignal ==
    /\ first => (i = 0 /\ active /\ idle = 0 /\ dpc # "drain")
    /\ ticked => first
    /\ (dpc = "running" /\ i < Len(providedNames) /\ ~first)
       => TickVerdict(first, active) # "ignore"

\* The detector has taken a tick while no signal had been received and a name
\* was inside the pool, and goes on as before.
C15_Witness ==
    /\ ticked
    /\ first
    /\ dpc = "running"
    /\ \E n \in Tasks : InPool(n)

IsPrefixOf(s, t) == Len(s) <= Len(t) /\ s = SubSeq(t, 1, Len(s))

\* The Resolve loop of name n is over.
LoopLeft(n) ==
    results[n] # <<>> /\ tpc[n] \in { "match", "exit", "finished" }

CnameEmpty(n) ==
    \E k \in 1..Len(results[n]) :
        queried[n][k] = "CNAME" /\ results[n][k] = Returned(<<>>)

C18_WhoisRateLimited ==
    /\ (whois.start >= 0 /\ whois.prev >= 0)
       => whois.start - whois.prev >= RateLimit
    /\ \A d \in whois.executed : IsDomainInScope(d)
    /\ whois.pc = "exec" => IsDomainInScope(whois.dom)

\* A second query has begun, exactly RateLimit after the first one ended,
\* for a request that arrived while the first was running.
C18_Witness ==
    /\ whois.pc = "exec"
    /\ whois.prev >= 0
    /\ whois.start = whois.prev + RateLimit
    /\ whois.sent = MaxWhois

\* C19: done stays closed; a done check made after it was closed cancels the
\* context and ends the producer without starting anything; a name is started
\* with done closed only by the Acquire that was pending, after which the
\* next step of the producer is such a check; a producer that has returned
\* starts nothing.
C19_NoAdmissionAfterDoneCheck ==
    /\ [](cancelled => (done /\ ppc = "returned"))
    /\ [][/\ done => done'
          /\ (done /\ ppc = "select")
             => /\ \A n \in Tasks : tpc[n] = "idle" => tpc'[n] = "idle"
                /\ idx' = idx
                /\ ppc' # ppc => (ppc' = "returned" /\ cancelled')
          /\ (done /\ tpc' # tpc /\ \E n \in Tasks : tpc[n] = "idle" /\ tpc'[n] # "idle")
             => /\ ppc = "acquire"
                /\ ppc' \in { "select", "returned" }
          /\ ppc = "returned" => (ppc' = "returned" /\ idx' = idx)]_vars

\* The producer found done closed in its select, cancelled and returned, and
\* a provided name was never started.
C19_Witness ==
    /\ done
    /\ cancelled
    /\ ppc = "returned"
    /\ \E n \in Tasks : tpc[n] = "idle"
    /\ \E n \in Tasks : tpc[n] # "idle"

\* C20: without a timeout processDNSAnswers returns in the end, and it
\* returns either with as many signals received as there are provided names
\* or on a tick that found active clear after the first signal.
C20_RunTerminates ==
    <>(\/ dpc = "complete" /\ i = Len(providedNames)
       \/ dpc = "drain" /\ ~first /\ ~active /\ i < Len(providedNames))

\* A run without a timeout ended by drain while a name was still inside the
\* pool.
C20_Witness ==
    /\ ~timeout
    /\ dpc = "drain"
    /\ \E n \in Tasks : InPool(n)

====
